---- MODULE Spec2Model ----
(***************************************************************************)
(* Model of fuzzers/aflplusplus_ddisasm/fuzzer.py: the build / instrument  *)
(* / fuzz orchestration of external tools, and the rewrite done by the     *)
(* generated assembler wrapper (assemble.sh).                              *)
(*                                                                         *)
(* The Python process is a sequential program; `pc` is its position.  A    *)
(* subprocess call is two steps: the spawn (the child is recorded in       *)
(* `child` with its argv and the environment it received) and the exit of  *)
(* the child (its exit status and its effect on the file system).  The     *)
(* external tools are modelled by their command-line interface only: what  *)
(* they read, what they write when they exit 0.                            *)
(***************************************************************************)
EXTENDS Integers, Sequences, FiniteSets, TLC

VARIABLES
    env,        \* os.environ: key -> value, Unset for a key that is not set
    cwd,        \* working directory of the process (never changed by the code)
    fs,         \* regular files: absolute path -> [content, mode]
    corpus,     \* corpus directories: directory -> (file name -> content)
    pc,         \* position of the Python process
    frame,      \* entry point of the current run and its arguments
    child,      \* the running child process, or NoChild
    outcome,    \* how the last run ended (return / exception), NoOutcome at start
    calls,      \* children spawned by the current run, in order, with exit status
    runs,       \* number of completed runs in this process
    ops,        \* file operations the current run did itself, in order
    snap,       \* fs, env and corpus when the current run was entered
    ib0,        \* fs when instrument_binary was last entered
    produced,   \* the --binary paths gtirb-pprinter has been started with
    prev,       \* entry point, arguments and outcome of the previous run
    asm,        \* wrapper: the assembly file $SOURCE, a sequence of lines
    asm0,       \* wrapper: the assembly file as given to the wrapper
    asm1,       \* wrapper: the assembly file as the previous invocation left it
    winv,       \* wrapper: number of completed invocations on the file
    wpc         \* wrapper: position in assemble.sh

vars == <<env, cwd, fs, corpus, pc, frame, child, outcome, calls, ops, runs,
          snap, ib0, produced, prev, asm, asm0, asm1, winv, wpc>>

pyvars == <<env, cwd, fs, corpus, pc, frame, child, outcome, calls, ops, runs,
            snap, ib0, produced, prev>>
shvars == <<asm, asm0, asm1, winv, wpc>>

-----------------------------------------------------------------------------
(* Bounds of the model *)

MaxRuns == 2        \* entry points called one after another in one process
MaxExit == 2        \* exit statuses of a child range over 0..MaxExit
MaxPad == 1         \* longest run of leading whitespace of a generated line
MaxLines == 2       \* longest generated assembly file, in lines
MaxInvocations == 2 \* invocations of the wrapper on the same file

ExitCodes == 0..MaxExit

Unset == "<unset>"
NoChild == [tool |-> "none"]
NoOutcome == [kind |-> "none"]

Targets == {"sample", "fuzzer"}
OutDirs == {"/out", "/work/out"}
Cwds == {"/out", "/src/proj"}
InputDirs == {"/seeds", "/empty"}
OutputDirs == {"/corpus"}

-----------------------------------------------------------------------------
(* The assembler wrapper: create_assembler and the two sed passes *)

TAB == "\t"
SP == " "

\* create_assembler(): the text of assemble.sh (Python escapes resolved).
create_assembler ==
    "#!/bin/bash\nset -ex\n\nSOURCE=$3\n\n" \o
    "# Add tab before .text and substitute space indentation for tabs to allow instrumentation\n" \o
    "sed 's/^\\.text$/\\t.text/' -i $SOURCE\n" \o
    "sed 's/^\\s\\{1,\\}/\\t/' -i $SOURCE\n\n\n" \o
    "AFL_AS_FORCE_INSTRUMENT=1 AFL_KEEP_ASSEMBLY=1 /src/afl/afl-gcc $@\n"

\* The characters GNU sed's \s matches inside a line.
Whitespace == {SP, TAB, "\r", "\f"}

DotText == <<".", "t", "e", "x", "t">>

\* Length of the longest prefix of line made of whitespace: what ^\s\{1,\}
\* matches when it is at least 1.
RECURSIVE LeadingWs(_)
LeadingWs(line) ==
    IF line = <<>> \/ Head(line) \notin Whitespace THEN 0
    ELSE 1 + LeadingWs(Tail(line))

Sed1LineNoTab(line) == line

Sed1LineUnanchored(line) ==
    IF Len(line) >= 5 /\ SubSeq(line, Len(line) - 4, Len(line)) = DotText
    THEN SubSeq(line, 1, Len(line) - 5) \o <<TAB>> \o DotText
    ELSE line

\* sed 's/^\.text$/\t.text/' on one line.
Sed1Line(line) == IF line = DotText THEN <<TAB>> \o DotText ELSE line

Sed2LineZeroOrMore(line) ==
    <<TAB>> \o SubSeq(line, LeadingWs(line) + 1, Len(line))

\* sed 's/^\s\{1,\}/\t/' on one line.
Sed2Line(line) ==
    LET n == LeadingWs(line) IN
    IF n >= 1 THEN <<TAB>> \o SubSeq(line, n + 1, Len(line)) ELSE line

\* sed -i applies the substitution to every line of the file.
Sed1File(text) == [i \in 1..Len(text) |-> Sed1Line(text[i])]
Sed2File(text) == [i \in 1..Len(text) |-> Sed2Line(text[i])]

\* Generated inputs: lines are a pad of leading blanks followed by a word.
RECURSIVE SeqsUpTo(_, _)
SeqsUpTo(S, n) ==
    IF n = 0 THEN {<<>>}
    ELSE LET shorter == SeqsUpTo(S, n - 1) IN
         shorter \cup {<<c>> \o s : c \in S, s \in {t \in shorter : Len(t) = n - 1}}

Pads == SeqsUpTo({SP, TAB}, MaxPad)

Words == { <<>>,
           DotText,
           DotText \o <<SP>>,
           DotText \o <<"\r">>,
           <<".", "t", "e", "x">>,
           <<"x">> \o DotText,
           <<"t", SP, "x">>,
           <<SP, "x", TAB>> }

Lines == {p \o w : p \in Pads, w \in Words}

Texts == SeqsUpTo(Lines, MaxLines)

ShInit ==
    /\ asm0 \in Texts
    /\ asm = asm0
    /\ asm1 = asm0
    /\ winv = 0
    /\ wpc = "sed1"

ShIdle ==
    /\ asm0 = <<>>
    /\ asm = <<>>
    /\ asm1 = <<>>
    /\ winv = 0
    /\ wpc = "off"

\* assemble.sh line 39 of fuzzer.py: first sed pass over $SOURCE.
Sed1 ==
    /\ wpc = "sed1"
    /\ asm' = Sed1File(asm)
    /\ wpc' = "sed2"
    /\ UNCHANGED <<asm0, asm1, winv, pyvars>>

\* assemble.sh line 40 of fuzzer.py: second sed pass over $SOURCE.
Sed2 ==
    /\ wpc = "sed2"
    /\ asm' = Sed2File(asm)
    /\ wpc' = "afl_gcc"
    /\ UNCHANGED <<asm0, asm1, winv, pyvars>>

\* assemble.sh line 43 of fuzzer.py: afl-gcc reads the rewritten file.
AflGcc ==
    /\ wpc = "afl_gcc"
    /\ wpc' = "done"
    /\ winv' = winv + 1
    /\ UNCHANGED <<asm, asm0, asm1, pyvars>>

\* The wrapper is invoked again on the file it has already rewritten.
Reinvoke ==
    /\ wpc = "done"
    /\ winv < MaxInvocations
    /\ asm1' = asm
    /\ wpc' = "sed1"
    /\ UNCHANGED <<asm, asm0, winv, pyvars>>

-----------------------------------------------------------------------------
(* The process environment *)

BuildKeys == {"CC", "CXX", "CFLAGS", "CXXFLAGS", "FUZZER_LIB"}
AFLKeys == {"AFL_NO_UI", "AFL_SKIP_CPUFREQ", "AFL_NO_AFFINITY",
            "AFL_I_DONT_CARE_ABOUT_MISSING_CRASHES", "AFL_SKIP_CRASHES",
            "AFL_SHUFFLE_QUEUE"}
InputKeys == {"SRC", "OUT", "FUZZ_TARGET"}
OtherKeys == {"PATH"}
Keys == BuildKeys \cup AFLKeys \cup InputKeys \cup OtherKeys

\* utils.NO_SANITIZER_COMPAT_CFLAGS and utils.LIBCPLUSPLUS_FLAG: lists of
\* compiler flags defined in fuzzers/utils.py; the flags are opaque here.
NO_SANITIZER_COMPAT_CFLAGS == <<"-cflag1", "-cflag2">>
LIBCPLUSPLUS_FLAG == "-libcxxflag"

\* ' '.join(list)
RECURSIVE Join(_)
Join(list) ==
    IF list = <<>> THEN ""
    ELSE IF Len(list) = 1 THEN list[1]
    ELSE list[1] \o " " \o Join(Tail(list))

\* The environments the process may start with: nothing of the keys the code
\* sets, or the AFL keys already set to another value, or the build keys
\* already set to another value.
StartEnvs(out, target) ==
    LET base == [k \in Keys |->
                    CASE k = "SRC" -> "/src"
                      [] k = "OUT" -> out
                      [] k = "FUZZ_TARGET" -> target
                      [] k = "PATH" -> "/usr/bin"
                      [] OTHER -> Unset]
    IN { base,
         [k \in Keys |-> IF k \in AFLKeys THEN "0" ELSE base[k]],
         [k \in Keys |-> IF k \in BuildKeys THEN "preset" ELSE base[k]] }

-----------------------------------------------------------------------------
(* Files *)

Mode777 == 511      \* 0o777
Mode755 == 493      \* 0o755, mode of a linked executable
Mode644 == 420      \* 0o666 & ~umask(022), mode open(..., 'w') creates with

File(content, mode) == [content |-> content, mode |-> mode]

Exists(path) == path \in DOMAIN fs

\* fs with path (over)written.
WriteFile(files, path, file) ==
    [p \in DOMAIN files \cup {path} |-> IF p = path THEN file ELSE files[p]]

\* A relative path given to a child is resolved against its working directory.
AbsPath(dir, rel) == dir \o "/" \o rel

StubLib == "/libStandaloneFuzzTarget.a"
fuzzing_engine_path == "/usr/lib/libFuzzingEngine.a"
AflFuzzSrc == "/src/afl/afl-fuzz"
assembler == "/src/fuzzers/aflplusplus_ddisasm/assemble.sh"

StartFs ==
    [p \in {StubLib, AflFuzzSrc} |->
        IF p = StubLib THEN File("stub archive", Mode644)
        ELSE File("afl-fuzz driver", Mode755)]

\* Corpus directories: a directory is a function from file names to contents.
EmptyDir == [n \in {} |-> ""]
DirStates == { EmptyDir,
               [n \in {"a"} |-> ""],
               [n \in {"a"} |-> "A"],
               [n \in {"default_seed"} |-> ""] }

-----------------------------------------------------------------------------
(* Names derived in instrument_binary and fuzz *)

\* line 79
target_gtirb(target_binary) == target_binary \o ".gtirb"

\* lines 80 and 147
instrumented_binary(target_binary) == target_binary \o ".dafl"

DdisasmArgvOtherIr(e) ==
    << "ddisasm", e["OUT"] \o "/" \o e["FUZZ_TARGET"], "--ir",
       e["FUZZ_TARGET"] \o ".ir" >>

DdisasmArgv(e) ==
    << "ddisasm", e["OUT"] \o "/" \o e["FUZZ_TARGET"], "--ir",
       target_gtirb(e["FUZZ_TARGET"]) >>

PprinterArgvOverwrite(e) ==
    << "gtirb-pprinter", target_gtirb(e["FUZZ_TARGET"]), "--syntax", "att",
       "--binary", e["OUT"] \o "/" \o e["FUZZ_TARGET"],
       "--use-gcc", assembler >>

PprinterArgv(e) ==
    << "gtirb-pprinter", target_gtirb(e["FUZZ_TARGET"]), "--syntax", "att",
       "--binary", e["OUT"] \o "/" \o instrumented_binary(e["FUZZ_TARGET"]),
       "--use-gcc", assembler >>

AflFuzzArgvOtherSuffix(f) ==
    << "./afl-fuzz", "-i", f.input_corpus, "-o", f.output_corpus, "--",
       f.target_binary \o ".afl", "@@" >>

AflFuzzArgvSwapped(f) ==
    << "./afl-fuzz", "-i", f.output_corpus, "-o", f.input_corpus, "--",
       instrumented_binary(f.target_binary), "@@" >>

AflFuzzArgv(f) ==
    << "./afl-fuzz", "-i", f.input_corpus, "-o", f.output_corpus, "--",
       instrumented_binary(f.target_binary), "@@" >>

BuildScriptArgv(e) == << "/bin/bash", "-ex", e["SRC"] \o "/" \o "build.sh" >>

-----------------------------------------------------------------------------
(* Outcomes of a run *)

Returned == [kind |-> "return"]
Running == [kind |-> "running"]
CalledProcessError(tool, rc) ==
    [kind |-> "CalledProcessError", cmd |-> tool, returncode |-> rc]
OSError(what) == [kind |-> "OSError", what |-> what]

Frame(entry, ic, oc, tb) ==
    [entry |-> entry, input_corpus |-> ic, output_corpus |-> oc, target_binary |-> tb]

Call(entry, ic, oc, tb, first) ==
    /\ runs < MaxRuns
    /\ frame' = Frame(entry, ic, oc, tb)
    /\ prev' = [frame |-> frame, outcome |-> outcome]
    /\ snap' = [fs |-> fs, env |-> env, corpus |-> corpus]
    /\ outcome' = Running
    /\ calls' = <<>>
    /\ ops' = <<>>
    /\ pc' = first
    /\ UNCHANGED <<env, cwd, fs, corpus, child, runs, ib0, produced, shvars>>

\* The run ends: the entry point returns, or an exception leaves it.
Finish(o) ==
    /\ outcome' = o
    /\ pc' = "idle"
    /\ runs' = runs + 1

Spawn(tool, argv, childEnv, waitAt) ==
    /\ child' = [tool |-> tool, argv |-> argv, env |-> childEnv]
    /\ pc' = waitAt
    /\ UNCHANGED <<env, cwd, fs, corpus, frame, outcome, calls, ops, runs, snap, prev, shvars>>

Logged(rc) == Append(calls, [tool |-> child.tool, argv |-> child.argv,
                             env |-> child.env, rc |-> rc])

\* How many times the current run has started tool, the running child included.
Tries(tool) ==
    Cardinality({i \in 1..Len(calls) : calls[i].tool = tool})
        + (IF child.tool = tool THEN 1 ELSE 0)

RetryOnceOnFailure(rc, tries) == rc # 0 /\ tries < 2

\* No call of a child is inside a loop: whatever the exit status and however
\* often the tool has run, the call is not repeated.
Retry(rc, tries) == FALSE

Invoked(tool) ==
    \/ child.tool = tool
    \/ \E i \in 1..Len(calls) : calls[i].tool = tool

-----------------------------------------------------------------------------
(* Entry points *)

\* build()
Call_build ==
    /\ pc = "idle"
    /\ Call("build", "", "", "", "bub_setenv")

\* instrument_binary()
Call_instrument_binary ==
    /\ pc = "idle"
    /\ Call("instrument_binary", "", "", "", "ib_ddisasm")

\* prepare_fuzz_environment(input_corpus)
Call_prepare_fuzz_environment ==
    /\ pc = "idle"
    /\ \E ic \in InputDirs :
         Call("prepare_fuzz_environment", ic, "", "", "pfe_setenv")

\* fuzz(input_corpus, output_corpus, target_binary)
Call_fuzz ==
    /\ pc = "idle"
    /\ \E ic \in InputDirs, oc \in OutputDirs, t \in Targets :
         Call("fuzz", ic, oc, env["OUT"] \o "/" \o t, "pfe_setenv")

-----------------------------------------------------------------------------
(* build_uninstrumented_benchmark, lines 48-69 *)

BuildEnvNoLibcxx(e) ==
    [k \in Keys |->
        CASE k = "CC" -> "clang"
          [] k = "CXX" -> "clang++"
          [] k = "CFLAGS" -> Join(NO_SANITIZER_COMPAT_CFLAGS)
          [] k = "CXXFLAGS" -> Join(NO_SANITIZER_COMPAT_CFLAGS)
          [] k = "FUZZER_LIB" -> StubLib
          [] OTHER -> e[k]]

BuildEnvLocal(e) == e

\* lines 54-59: os.environ after the five assignments
BuildEnv(e) ==
    [k \in Keys |->
        CASE k = "CC" -> "clang"
          [] k = "CXX" -> "clang++"
          [] k = "CFLAGS" -> Join(NO_SANITIZER_COMPAT_CFLAGS)
          [] k = "CXXFLAGS" -> Join(<<LIBCPLUSPLUS_FLAG>> \o NO_SANITIZER_COMPAT_CFLAGS)
          [] k = "FUZZER_LIB" -> StubLib
          [] OTHER -> e[k]]

\* lines 54-59
SetBuildEnv ==
    /\ pc = "bub_setenv"
    /\ env' = BuildEnv(env)
    /\ pc' = "bub_copy"
    /\ UNCHANGED <<cwd, fs, corpus, frame, child, outcome, calls, ops, runs, snap, ib0, produced, prev, shvars>>

\* lines 60-61: shutil.copy(os.environ['FUZZER_LIB'], fuzzing_engine_path)
CopyStub ==
    /\ pc = "bub_copy"
    /\ \E ok \in BOOLEAN :
         IF ok /\ Exists(env["FUZZER_LIB"])
         THEN /\ fs' = WriteFile(fs, fuzzing_engine_path, fs[env["FUZZER_LIB"]])
              /\ ops' = Append(ops, "copy_stub")
              /\ pc' = "bub_script"
              /\ UNCHANGED <<outcome, runs>>
         ELSE /\ Finish(OSError("shutil.copy"))
              /\ UNCHANGED <<fs, ops>>
    /\ UNCHANGED <<env, cwd, corpus, frame, child, calls, snap, ib0, produced, prev, shvars>>

\* lines 62-69: env = os.environ.copy(); the build script is started with it
SpawnBuildScript ==
    /\ pc = "bub_script"
    /\ Spawn("build.sh", BuildScriptArgv(env), env, "bub_wait")
    /\ UNCHANGED <<ib0, produced>>

\* What a successful build script leaves: the binary $OUT/$FUZZ_TARGET.
BuildScriptEffect(files, c) ==
    WriteFile(files, c.env["OUT"] \o "/" \o c.env["FUZZ_TARGET"],
              File("ELF " \o c.env["FUZZ_TARGET"], Mode755))

BuildScriptRaisesUnchecked(rc) == FALSE

\* lines 66-69: subprocess.check_call raises CalledProcessError(returncode)
\* on a non-zero exit status
BuildScriptRaises(rc) == rc # 0

BuildScriptExit ==
    /\ pc = "bub_wait"
    /\ \E rc \in ExitCodes :
         /\ calls' = Logged(rc)
         /\ fs' = IF rc = 0 THEN BuildScriptEffect(fs, child) ELSE fs
         /\ IF Retry(rc, Tries(child.tool))
            THEN /\ pc' = "bub_script"
                 /\ UNCHANGED <<outcome, runs>>
            ELSE IF BuildScriptRaises(rc)
            THEN Finish(CalledProcessError(child.tool, rc))
            ELSE /\ pc' = "ib_ddisasm"
                 /\ UNCHANGED <<outcome, runs>>
    /\ child' = NoChild
    /\ UNCHANGED <<env, cwd, corpus, frame, ops, snap, ib0, produced, prev, shvars>>

-----------------------------------------------------------------------------
(* instrument_binary, lines 72-100 *)

\* lines 78-89: subprocess.run(['ddisasm', ...], check=True), the spawn
SpawnDdisasm ==
    /\ pc = "ib_ddisasm"
    /\ Spawn("ddisasm", DdisasmArgv(env), env, "ib_ddisasm_wait")
    /\ ib0' = fs
    /\ UNCHANGED produced

\* ddisasm <binary> --ir <path>: exit 0 needs the binary and writes the IR.
DdisasmCanSucceed(c) == Exists(c.argv[2])
DdisasmEffect(files, c) ==
    WriteFile(files, AbsPath(cwd, c.argv[4]), File("GTIRB of " \o c.argv[2], Mode644))

DdisasmRaisesUnchecked(rc) == FALSE

\* check=True: a non-zero exit status raises CalledProcessError
DdisasmRaises(rc) == rc # 0

DdisasmExit ==
    /\ pc = "ib_ddisasm_wait"
    /\ \E rc \in ExitCodes :
         /\ rc = 0 => DdisasmCanSucceed(child)
         /\ calls' = Logged(rc)
         /\ fs' = IF rc = 0 THEN DdisasmEffect(fs, child) ELSE fs
         /\ IF Retry(rc, Tries(child.tool))
            THEN /\ pc' = "ib_ddisasm"
                 /\ UNCHANGED <<outcome, runs>>
            ELSE IF DdisasmRaises(rc)
            THEN Finish(CalledProcessError(child.tool, rc))
            ELSE /\ pc' = "ib_write"
                 /\ UNCHANGED <<outcome, runs>>
    /\ child' = NoChild
    /\ UNCHANGED <<env, cwd, corpus, frame, ops, snap, ib0, produced, prev, shvars>>

\* lines 91-93: open(assembler, 'w').write(create_assembler())
\* An existing file keeps its mode; a new one gets the default mode.
WriteAssembler ==
    /\ pc = "ib_write"
    /\ \E ok \in BOOLEAN :
         IF ok
         THEN /\ fs' = WriteFile(fs, assembler,
                          File(create_assembler,
                               IF Exists(assembler) THEN fs[assembler].mode ELSE Mode644))
              /\ ops' = Append(ops, "write_assembler")
              /\ pc' = "ib_chmod"
              /\ UNCHANGED <<outcome, runs>>
         ELSE /\ Finish(OSError("open"))
              /\ UNCHANGED <<fs, ops>>
    /\ UNCHANGED <<env, cwd, corpus, frame, child, calls, snap, ib0, produced, prev, shvars>>

ChmodModeOwnerOnly == Mode777 - 63

\* line 94: the mode given to os.chmod
ChmodMode == Mode777

\* line 94: os.chmod(assembler, 0o777)
ChmodAssembler ==
    /\ pc = "ib_chmod"
    /\ fs' = [fs EXCEPT ![assembler].mode = ChmodMode]
    /\ ops' = Append(ops, "chmod_assembler")
    /\ pc' = "ib_pprinter"
    /\ UNCHANGED <<env, cwd, corpus, frame, child, outcome, calls, runs, snap, ib0, produced, prev, shvars>>

\* lines 96-100: subprocess.run(['gtirb-pprinter', ...], check=True), the spawn
SpawnPprinter ==
    /\ pc = "ib_pprinter"
    /\ Spawn("gtirb-pprinter", PprinterArgv(env), env, "ib_pprinter_wait")
    /\ produced' = produced \cup {PprinterArgv(env)[6]}
    /\ UNCHANGED ib0

\* gtirb-pprinter <ir> --syntax att --binary <out> --use-gcc <wrapper>:
\* exit 0 needs the IR and a wrapper it can execute, and writes the binary.
PprinterCanSucceed(c) ==
    /\ Exists(AbsPath(cwd, c.argv[2]))
    /\ Exists(c.argv[8])
    /\ (fs[c.argv[8]].mode \div 64) % 2 = 1
PprinterEffect(files, c) ==
    WriteFile(files, c.argv[6], File("instrumented from " \o c.argv[2], Mode755))

PprinterRaisesUnchecked(rc) == FALSE

\* check=True: a non-zero exit status raises CalledProcessError
PprinterRaises(rc) == rc # 0

PprinterExit ==
    /\ pc = "ib_pprinter_wait"
    /\ \E rc \in ExitCodes :
         /\ rc = 0 => PprinterCanSucceed(child)
         /\ calls' = Logged(rc)
         /\ fs' = IF rc = 0 THEN PprinterEffect(fs, child) ELSE fs
         /\ IF Retry(rc, Tries(child.tool))
            THEN /\ pc' = "ib_pprinter"
                 /\ UNCHANGED <<outcome, runs>>
            ELSE IF PprinterRaises(rc)
            THEN Finish(CalledProcessError(child.tool, rc))
            ELSE IF frame.entry = "build"
                 THEN /\ pc' = "b_copy"
                      /\ UNCHANGED <<outcome, runs>>
                 ELSE Finish(Returned)
    /\ child' = NoChild
    /\ UNCHANGED <<env, cwd, corpus, frame, ops, snap, ib0, produced, prev, shvars>>

-----------------------------------------------------------------------------
(* build, lines 103-109 *)

\* line 109: shutil.copy('/src/afl/afl-fuzz', os.environ['OUT'])
CopyAflFuzz ==
    /\ pc = "b_copy"
    /\ \E ok \in BOOLEAN :
         IF ok /\ Exists(AflFuzzSrc)
         THEN /\ fs' = WriteFile(fs, env["OUT"] \o "/" \o "afl-fuzz", fs[AflFuzzSrc])
              /\ ops' = Append(ops, "copy_afl_fuzz")
              /\ Finish(Returned)
         ELSE /\ Finish(OSError("shutil.copy"))
              /\ UNCHANGED <<fs, ops>>
    /\ UNCHANGED <<env, cwd, corpus, frame, child, calls, snap, ib0, produced, prev, shvars>>

-----------------------------------------------------------------------------
(* prepare_fuzz_environment, lines 112-131 *)

PrepareEnvAppend(e) ==
    [k \in Keys |-> IF k \in AFLKeys
                    THEN (IF e[k] = Unset THEN "1" ELSE e[k] \o "1")
                    ELSE e[k]]

\* lines 117-129: six assignments os.environ[key] = '1'
PrepareEnv(e) == [k \in Keys |-> IF k \in AFLKeys THEN "1" ELSE e[k]]

SetFuzzEnv ==
    /\ pc = "pfe_setenv"
    /\ env' = PrepareEnv(env)
    /\ pc' = "pfe_seed"
    /\ UNCHANGED <<cwd, fs, corpus, frame, child, outcome, calls, ops, runs, snap, ib0, produced, prev, shvars>>

\* utils.create_seed_file_for_empty_corpus(input_corpus): a directory that
\* holds no file gets one placeholder seed with non-empty content; a
\* directory that holds a file is left alone.
create_seed_file_for_empty_corpus(dir) ==
    IF DOMAIN dir = {} THEN [n \in {"default_seed"} |-> "hi"] ELSE dir

NoSeed(dir) == dir

\* line 131: what the call does to the input corpus directory
SeedCorpus(dir) == create_seed_file_for_empty_corpus(dir)

CreateSeed ==
    /\ pc = "pfe_seed"
    /\ corpus' = [corpus EXCEPT ![frame.input_corpus] = SeedCorpus(@)]
    /\ IF frame.entry = "fuzz"
       THEN /\ pc' = "fz_spawn"
            /\ UNCHANGED <<outcome, runs>>
       ELSE Finish(Returned)
    /\ UNCHANGED <<env, cwd, fs, frame, child, calls, ops, snap, ib0, produced, prev, shvars>>

-----------------------------------------------------------------------------
(* fuzz, lines 134-152 *)

\* lines 147-152: subprocess.call(['./afl-fuzz', ...]), the spawn; a missing
\* executable raises FileNotFoundError out of subprocess.call
SpawnAflFuzz ==
    /\ pc = "fz_spawn"
    /\ Exists(AbsPath(cwd, "afl-fuzz"))
    /\ Spawn("afl-fuzz", AflFuzzArgv(frame), env, "fz_wait")
    /\ UNCHANGED <<ib0, produced>>

AflFuzzMissing ==
    /\ pc = "fz_spawn"
    /\ ~Exists(AbsPath(cwd, "afl-fuzz"))
    /\ Finish(OSError("FileNotFoundError"))
    /\ UNCHANGED <<env, cwd, fs, corpus, frame, child, calls, ops, snap, ib0, produced, prev, shvars>>

\* afl-fuzz -i <in> -o <out> -- <binary> @@: exit 0 needs the binary.
AflFuzzCanSucceed(c) == Exists(c.argv[7])

FuzzOutcomeChecked(rc) ==
    IF rc = 0 THEN Returned ELSE CalledProcessError("afl-fuzz", rc)

\* lines 149-152: subprocess.call returns the exit status, which fuzz drops
FuzzOutcome(rc) == Returned

AflFuzzExit ==
    /\ pc = "fz_wait"
    /\ \E rc \in ExitCodes :
         /\ rc = 0 => AflFuzzCanSucceed(child)
         /\ calls' = Logged(rc)
         /\ IF Retry(rc, Tries(child.tool))
            THEN /\ pc' = "fz_spawn"
                 /\ UNCHANGED <<outcome, runs>>
            ELSE Finish(FuzzOutcome(rc))
    /\ child' = NoChild
    /\ UNCHANGED <<env, cwd, fs, corpus, frame, ops, snap, ib0, produced, prev, shvars>>

-----------------------------------------------------------------------------
(* Specifications *)

PyInit ==
    /\ cwd \in Cwds
    /\ \E out \in OutDirs, target \in Targets : env \in StartEnvs(out, target)
    /\ fs = StartFs
    /\ corpus \in {[d \in InputDirs |-> IF d = "/seeds" THEN s ELSE EmptyDir] : s \in DirStates}
    /\ pc = "idle"
    /\ frame = Frame("none", "", "", "")
    /\ child = NoChild
    /\ outcome = NoOutcome
    /\ calls = <<>>
    /\ ops = <<>>
    /\ runs = 0
    /\ snap = [fs |-> fs, env |-> env, corpus |-> corpus]
    /\ ib0 = fs
    /\ produced = {}
    /\ prev = [frame |-> frame, outcome |-> outcome]

\* The Python process before any entry point is called.
PyIdle ==
    /\ cwd = "/out"
    /\ env \in StartEnvs("/out", "sample")
    /\ env["CC"] = Unset /\ env["AFL_NO_UI"] = Unset
    /\ fs = StartFs
    /\ corpus = [d \in InputDirs |-> EmptyDir]
    /\ pc = "off"
    /\ frame = Frame("none", "", "", "")
    /\ child = NoChild
    /\ outcome = NoOutcome
    /\ calls = <<>>
    /\ ops = <<>>
    /\ runs = 0
    /\ snap = [fs |-> fs, env |-> env, corpus |-> corpus]
    /\ ib0 = fs
    /\ produced = {}
    /\ prev = [frame |-> frame, outcome |-> outcome]

Init == PyInit /\ ShIdle

Next ==
    \/ Call_build
    \/ Call_instrument_binary
    \/ Call_prepare_fuzz_environment
    \/ Call_fuzz
    \/ SetBuildEnv
    \/ CopyStub
    \/ SpawnBuildScript
    \/ BuildScriptExit
    \/ SpawnDdisasm
    \/ DdisasmExit
    \/ WriteAssembler
    \/ ChmodAssembler
    \/ SpawnPprinter
    \/ PprinterExit
    \/ CopyAflFuzz
    \/ SetFuzzEnv
    \/ CreateSeed
    \/ SpawnAflFuzz
    \/ AflFuzzMissing
    \/ AflFuzzExit

Spec == Init /\ [][Next]_vars

\* Runs of build only, where the interpreter always takes its next step and
\* every child that was started exits.
BuildStep ==
    \/ SetBuildEnv
    \/ CopyStub
    \/ SpawnBuildScript
    \/ BuildScriptExit
    \/ SpawnDdisasm
    \/ DdisasmExit
    \/ WriteAssembler
    \/ ChmodAssembler
    \/ SpawnPprinter
    \/ PprinterExit
    \/ CopyAflFuzz

NextBuild == Call_build \/ BuildStep

SpecBuild == Init /\ [][NextBuild]_vars /\ WF_vars(BuildStep)

\* The wrapper script run on an assembly file.
InitSh == PyIdle /\ ShInit

NextSh == Sed1 \/ Sed2 \/ AflGcc \/ Reinvoke

SpecSh == InitSh /\ [][NextSh]_vars

-----------------------------------------------------------------------------
(* Properties *)

\* The paths the properties speak about, written out from the environment.
BinPath == env["OUT"] \o "/" \o env["FUZZ_TARGET"]
DaflPath == env["OUT"] \o "/" \o env["FUZZ_TARGET"] \o ".dafl"
OutIrPath == env["OUT"] \o "/" \o env["FUZZ_TARGET"] \o ".gtirb"
CwdIrPath == cwd \o "/" \o env["FUZZ_TARGET"] \o ".gtirb"

\* The current run spawned tool and it exited with status 0 / another status.
ExitedZero(tool) ==
    \E i \in 1..Len(calls) : calls[i].tool = tool /\ calls[i].rc = 0
ExitedNonZero(tool) ==
    \E i \in 1..Len(calls) : calls[i].tool = tool /\ calls[i].rc # 0

\* Nothing created or changed the file at path since the run was entered.
Untouched(path) ==
    /\ Exists(path) <=> path \in DOMAIN snap.fs
    /\ Exists(path) => fs[path] = snap.fs[path]

\* C1: in a run of instrument_binary or build in which ddisasm exited with a
\* non-zero status, gtirb-pprinter is never invoked, the run has ended with
\* an exception, and $OUT/<target>.dafl was neither created nor rewritten.
C1_DdisasmFailureAborts ==
    ExitedNonZero("ddisasm") =>
        /\ ~Invoked("gtirb-pprinter")
        /\ pc = "idle"
        /\ outcome.kind = "CalledProcessError"
        /\ Untouched(DaflPath)

C1_Witness ==
    /\ frame.entry = "build"
    /\ ExitedZero("build.sh")
    /\ ExitedNonZero("ddisasm")
    /\ Exists(BinPath)

\* C2: the instrumented binary exists only if the uninstrumented binary and
\* the IR file exist, and whenever gtirb-pprinter has been invoked ddisasm
\* had exited with status 0 before and both the binary and the IR exist.
C2_DaflOnlyAfterBinaryAndIr ==
    /\ Exists(DaflPath) => Exists(BinPath) /\ Exists(CwdIrPath)
    /\ Invoked("gtirb-pprinter") =>
          /\ Exists(BinPath)
          /\ Exists(CwdIrPath)
          /\ \E i \in 1..Len(calls) :
                /\ calls[i].tool = "ddisasm"
                /\ calls[i].rc = 0
                /\ \A j \in 1..i : calls[j].tool # "gtirb-pprinter"

C2_Witness ==
    /\ Exists(DaflPath)
    /\ ExitedZero("gtirb-pprinter")

\* instrument_binary has completed successfully in the current run.
InstrumentSucceeded == ExitedZero("gtirb-pprinter")

WrapperExecutableByAll ==
    /\ Exists("/src/fuzzers/aflplusplus_ddisasm/assemble.sh")
    /\ LET m == fs["/src/fuzzers/aflplusplus_ddisasm/assemble.sh"].mode IN
         /\ (m \div 64) % 2 = 1
         /\ (m \div 8) % 2 = 1
         /\ m % 2 = 1

\* C3 as stated: after a successful instrument_binary, $OUT/<target>.gtirb
\* and $OUT/<target>.dafl exist, $OUT/<target> is unmodified and the wrapper
\* is executable by all.
C3_Original ==
    InstrumentSucceeded =>
        /\ Exists(OutIrPath)
        /\ Exists(DaflPath)
        /\ Exists(BinPath) /\ BinPath \in DOMAIN ib0 /\ fs[BinPath] = ib0[BinPath]
        /\ WrapperExecutableByAll

\* C3 (amended): after a successful instrument_binary, <target>.gtirb exists
\* in the working directory of the process (which is $OUT/<target>.gtirb only
\* when the working directory is $OUT), $OUT/<target>.dafl exists,
\* $OUT/<target> is as it was when instrument_binary was entered, and the
\* wrapper exists with execute permission for all users.
C3_InstrumentLayout ==
    InstrumentSucceeded =>
        /\ Exists(CwdIrPath)
        /\ cwd = env["OUT"] => Exists(OutIrPath)
        /\ Exists(DaflPath)
        /\ Exists(BinPath) /\ BinPath \in DOMAIN ib0 /\ fs[BinPath] = ib0[BinPath]
        /\ WrapperExecutableByAll

C3_Witness ==
    /\ InstrumentSucceeded
    /\ frame.entry = "instrument_binary"
    /\ outcome = [kind |-> "return"]
    /\ cwd # env["OUT"]
    /\ ~Exists(OutIrPath)

BuildOrder == <<"build.sh", "ddisasm", "gtirb-pprinter">>

\* C4: in a run of build the children are the build script, ddisasm and
\* gtirb-pprinter in that order, each spawned only after the previous one
\* exited with status 0; the afl-fuzz driver is copied into $OUT only after
\* all three exited with status 0; and once a child has exited non-zero the
\* run has ended with an exception and the driver was not copied.
C4_BuildOrder ==
    frame.entry = "build" =>
        /\ Len(calls) <= 3
        /\ \A i \in 1..Len(calls) :
              /\ calls[i].tool = BuildOrder[i]
              /\ i < Len(calls) => calls[i].rc = 0
        /\ child # [tool |-> "none"] =>
              /\ Len(calls) < 3
              /\ child.tool = BuildOrder[Len(calls) + 1]
              /\ \A i \in 1..Len(calls) : calls[i].rc = 0
        /\ (\E k \in 1..Len(ops) : ops[k] = "copy_afl_fuzz") =>
              /\ Len(calls) = 3
              /\ \A i \in 1..3 : calls[i].rc = 0
              /\ Exists(env["OUT"] \o "/afl-fuzz")
        /\ (\E i \in 1..Len(calls) : calls[i].rc # 0) =>
              /\ pc = "idle"
              /\ outcome.kind = "CalledProcessError"
              /\ \A k \in 1..Len(ops) : ops[k] # "copy_afl_fuzz"
        /\ (pc = "idle" /\ outcome = [kind |-> "return"]) =>
              /\ Len(calls) = 3
              /\ ops = <<"copy_stub", "write_assembler", "chmod_assembler", "copy_afl_fuzz">>

C4_Witness ==
    /\ frame.entry = "build"
    /\ pc = "idle"
    /\ outcome = [kind |-> "return"]
    /\ ops[Len(ops)] = "copy_afl_fuzz"

\* C5: when the build script exits non-zero, build has ended with a
\* CalledProcessError carrying that exit status, the build script was run
\* once, no other child was spawned, and neither the wrapper was written or
\* chmod-ed nor the afl-fuzz driver copied in that run.
C5_BuildScriptFailureFatal ==
    \A i \in 1..Len(calls) :
        (calls[i].tool = "build.sh" /\ calls[i].rc # 0) =>
            /\ pc = "idle"
            /\ outcome.kind = "CalledProcessError"
            /\ outcome.returncode = calls[i].rc
            /\ Len(calls) = 1
            /\ child = [tool |-> "none"]
            /\ ops = <<"copy_stub">>
            /\ Untouched(DaflPath) /\ Untouched(CwdIrPath)
            /\ Untouched("/src/fuzzers/aflplusplus_ddisasm/assemble.sh")
            /\ Untouched(env["OUT"] \o "/afl-fuzz")

C5_Witness ==
    /\ frame.entry = "build"
    /\ ExitedNonZero("build.sh")
    /\ outcome.kind = "CalledProcessError"
    /\ outcome.returncode = MaxExit

\* C6 as stated: a non-zero exit of any external tool, afl-fuzz included,
\* ends the run in a failed outcome.
C6_Original ==
    \A i \in 1..Len(calls) :
        calls[i].rc # 0 =>
            /\ pc = "idle"
            /\ outcome.kind \in {"CalledProcessError", "OSError"}

\* C6 (amended): a non-zero exit of the build script, ddisasm or
\* gtirb-pprinter ends the run at once with a CalledProcessError carrying the
\* tool and its exit status; the exit status of afl-fuzz is dropped: fuzz
\* returns normally whatever afl-fuzz exited with.
C6_FailuresReported ==
    \A i \in 1..Len(calls) :
        /\ (calls[i].tool \in {"build.sh", "ddisasm", "gtirb-pprinter"} /\ calls[i].rc # 0) =>
              /\ pc = "idle"
              /\ i = Len(calls)
              /\ child = [tool |-> "none"]
              /\ outcome = [kind |-> "CalledProcessError", cmd |-> calls[i].tool,
                            returncode |-> calls[i].rc]
        /\ calls[i].tool = "afl-fuzz" =>
              /\ pc = "idle"
              /\ outcome = [kind |-> "return"]

C6_Witness ==
    /\ frame.entry = "fuzz"
    /\ ExitedNonZero("afl-fuzz")
    /\ outcome = [kind |-> "return"]

\* prepare_fuzz_environment has returned in the current run (it is the entry
\* point and has returned, or fuzz has got past its call).
PrepareReturned ==
    \/ frame.entry = "prepare_fuzz_environment" /\ pc = "idle" /\ outcome = [kind |-> "return"]
    \/ frame.entry = "fuzz" /\ (pc \in {"fz_spawn", "fz_wait"} \/ pc = "idle")

\* C7: if the input corpus directory held no file when
\* prepare_fuzz_environment was called, then once it has returned the
\* directory holds exactly one file and that file is not empty.
C7_EmptyCorpusSeeded ==
    (PrepareReturned /\ DOMAIN snap.corpus[frame.input_corpus] = {}) =>
        LET dir == corpus[frame.input_corpus] IN
        /\ Cardinality(DOMAIN dir) = 1
        /\ \A n \in DOMAIN dir : dir[n] # ""

C7_Witness ==
    /\ frame.entry = "prepare_fuzz_environment"
    /\ PrepareReturned
    /\ DOMAIN snap.corpus[frame.input_corpus] = {}
    /\ DOMAIN corpus[frame.input_corpus] # {}

\* C8: a call of prepare_fuzz_environment leaves the six AFL_* keys set to
\* '1' and every other key as it was; a call that directly follows a call
\* with the same input corpus leaves the environment and the corpus
\* directories exactly as the previous call left them.
C8_PrepareIdempotent ==
    (frame.entry = "prepare_fuzz_environment" /\ PrepareReturned) =>
        /\ \A k \in DOMAIN env :
              env[k] = IF k \in {"AFL_NO_UI", "AFL_SKIP_CPUFREQ", "AFL_NO_AFFINITY",
                                 "AFL_I_DONT_CARE_ABOUT_MISSING_CRASHES",
                                 "AFL_SKIP_CRASHES", "AFL_SHUFFLE_QUEUE"}
                       THEN "1" ELSE snap.env[k]
        /\ (prev.frame = frame /\ prev.outcome = [kind |-> "return"]) =>
              /\ env = snap.env
              /\ corpus = snap.corpus
              /\ fs = snap.fs

C8_Witness ==
    /\ frame.entry = "prepare_fuzz_environment"
    /\ PrepareReturned
    /\ prev.frame = frame
    /\ prev.outcome = [kind |-> "return"]
    /\ "default_seed" \in DOMAIN corpus[frame.input_corpus]
    /\ corpus[frame.input_corpus]["default_seed"] = "hi"

\* C9: whenever afl-fuzz has been spawned by fuzz, the environment it was
\* given has the six AFL_* keys set to '1', the input corpus directory is
\* not empty, and its arguments are
\* -i <input_corpus> -o <output_corpus> -- <target_binary>.dafl @@.
C9_SpawnedAfterPrepare ==
    \A c \in (IF child.tool = "afl-fuzz" THEN {child} ELSE {}) \cup
             {calls[i] : i \in {j \in 1..Len(calls) : calls[j].tool = "afl-fuzz"}} :
        /\ \A k \in {"AFL_NO_UI", "AFL_SKIP_CPUFREQ", "AFL_NO_AFFINITY",
                     "AFL_I_DONT_CARE_ABOUT_MISSING_CRASHES",
                     "AFL_SKIP_CRASHES", "AFL_SHUFFLE_QUEUE"} : c.env[k] = "1"
        /\ DOMAIN corpus[frame.input_corpus] # {}
        /\ c.argv = << "./afl-fuzz", "-i", frame.input_corpus, "-o", frame.output_corpus,
                       "--", frame.target_binary \o ".dafl", "@@" >>
        /\ frame.entry = "fuzz"

C9_Witness ==
    /\ child.tool = "afl-fuzz"
    /\ pc = "fz_wait"
    /\ snap.env["AFL_NO_UI"] # "1"
    /\ DOMAIN snap.corpus[frame.input_corpus] = {}

\* C10: once both sed passes of the wrapper have run, every line that was
\* exactly `.text` in the file given to the wrapper is a tab followed by
\* `.text`, and the file has as many lines as before.
C10_DotTextTabbed ==
    wpc \in {"afl_gcc", "done"} =>
        /\ Len(asm) = Len(asm0)
        /\ \A i \in 1..Len(asm0) :
              asm0[i] = <<".", "t", "e", "x", "t">> =>
                  asm[i] = <<"\t", ".", "t", "e", "x", "t">>

C10_Witness ==
    /\ wpc = "done"
    /\ Len(asm0) = 2
    /\ asm0[1] = <<".", "t", "e", "x", "t">>
    /\ asm0[2] # asm[2]

\* C11 as stated: after the rewrite every line that began with whitespace
\* is one tab followed by the rest of the line, and every line that did not
\* begin with whitespace is unchanged.
C11_Original ==
    wpc \in {"afl_gcc", "done"} =>
        \A i \in 1..Len(asm0) :
            LET l == asm0[i] IN
            /\ \A k \in 1..Len(l) :
                  ( /\ \A j \in 1..k : l[j] \in {" ", "\t", "\r", "\f"}
                    /\ (k = Len(l) \/ l[k + 1] \notin {" ", "\t", "\r", "\f"}) )
                  => asm[i] = <<"\t">> \o SubSeq(l, k + 1, Len(l))
            /\ (l = <<>> \/ l[1] \notin {" ", "\t", "\r", "\f"}) => asm[i] = l

\* C11 (amended): after the rewrite every line that began with whitespace is
\* one tab followed by the rest of the line, and every line that did not
\* begin with whitespace is unchanged unless it was exactly `.text`, which
\* has become a tab followed by `.text`.
C11_IndentationNormalised ==
    wpc \in {"afl_gcc", "done"} =>
        \A i \in 1..Len(asm0) :
            LET l == asm0[i] IN
            /\ \A k \in 1..Len(l) :
                  ( /\ \A j \in 1..k : l[j] \in {" ", "\t", "\r", "\f"}
                    /\ (k = Len(l) \/ l[k + 1] \notin {" ", "\t", "\r", "\f"}) )
                  => asm[i] = <<"\t">> \o SubSeq(l, k + 1, Len(l))
            /\ ( /\ (l = <<>> \/ l[1] \notin {" ", "\t", "\r", "\f"})
                 /\ l # <<".", "t", "e", "x", "t">> ) => asm[i] = l
            /\ l = <<".", "t", "e", "x", "t">> => asm[i] = <<"\t">> \o l

C11_Witness ==
    /\ wpc = "done"
    /\ Len(asm0) = 2
    /\ asm0[1] = <<" ", " ", "x", "\t">>
    /\ asm[1] = <<"\t", "x", "\t">>
    /\ asm0[2] = <<"x", ".", "t", "e", "x", "t">>
    /\ asm[2] = asm0[2]

\* C17: a further invocation of the wrapper on a file it has already
\* rewritten leaves every line of the file as the previous invocation left it.
C17_RewriteIdempotent ==
    (winv >= 2 /\ wpc = "done") => asm = asm1

C17_Witness ==
    /\ winv = 2
    /\ wpc = "done"
    /\ asm0 # asm
    /\ \E i \in 1..Len(asm0) : asm0[i] = <<".", "t", "e", "x", "t">>

\* C12: gtirb-pprinter is always directed to produce the path of the
\* uninstrumented binary (the one given to ddisasm) with `.dafl` appended,
\* and when fuzz is called with target_binary = $OUT/$FUZZ_TARGET the binary
\* given to afl-fuzz is that same path, one gtirb-pprinter was started with.
C12_InstrumentedPathConsistent ==
    /\ \A i \in 1..Len(calls) :
          calls[i].tool = "gtirb-pprinter" =>
              /\ i > 1
              /\ calls[i - 1].tool = "ddisasm"
              /\ calls[i].argv[6] = calls[i - 1].argv[2] \o ".dafl"
              /\ calls[i - 1].argv[2] = env["OUT"] \o "/" \o env["FUZZ_TARGET"]
    /\ child.tool = "gtirb-pprinter" =>
          /\ calls # <<>>
          /\ child.argv[6] = calls[Len(calls)].argv[2] \o ".dafl"
    /\ \A p \in produced : p = env["OUT"] \o "/" \o env["FUZZ_TARGET"] \o ".dafl"
    /\ \A c \in (IF child.tool = "afl-fuzz" THEN {child} ELSE {}) \cup
                {calls[i] : i \in {j \in 1..Len(calls) : calls[j].tool = "afl-fuzz"}} :
          frame.target_binary = env["OUT"] \o "/" \o env["FUZZ_TARGET"] =>
              /\ c.argv[7] = frame.target_binary \o ".dafl"
              /\ c.argv[7] \in produced

C12_Witness ==
    /\ child.tool = "afl-fuzz"
    /\ frame.target_binary = env["OUT"] \o "/" \o env["FUZZ_TARGET"]
    /\ prev.frame.entry = "build"
    /\ child.argv[7] \in produced
    /\ Exists(child.argv[7])

\* C13: whenever the build script has been started, the environment it was
\* given has CC, CXX, CFLAGS, CXXFLAGS and FUZZER_LIB as the code sets them
\* and every other key as it was, the stub archive has been copied to
\* /usr/lib/libFuzzingEngine.a, and its argv is /bin/bash -ex $SRC/build.sh;
\* in a run of build where the stub was not copied the build script is never
\* started.
C13_BuildScriptAfterSetup ==
    /\ \A c \in (IF child.tool = "build.sh" THEN {child} ELSE {}) \cup
                {calls[i] : i \in {j \in 1..Len(calls) : calls[j].tool = "build.sh"}} :
          /\ c.env["CC"] = "clang"
          /\ c.env["CXX"] = "clang++"
          /\ c.env["CFLAGS"] = "-cflag1 -cflag2"
          /\ c.env["CXXFLAGS"] = "-libcxxflag -cflag1 -cflag2"
          /\ c.env["FUZZER_LIB"] = "/libStandaloneFuzzTarget.a"
          /\ \A k \in DOMAIN c.env \ {"CC", "CXX", "CFLAGS", "CXXFLAGS", "FUZZER_LIB"} :
                c.env[k] = snap.env[k]
          /\ c.argv = <<"/bin/bash", "-ex", snap.env["SRC"] \o "/build.sh">>
          /\ ops # <<>> /\ ops[1] = "copy_stub"
          /\ Exists("/usr/lib/libFuzzingEngine.a")
          /\ fs["/usr/lib/libFuzzingEngine.a"] = fs["/libStandaloneFuzzTarget.a"]
    /\ (frame.entry = "build" /\ \A k \in 1..Len(ops) : ops[k] # "copy_stub") =>
          /\ calls = <<>>
          /\ child = [tool |-> "none"]

C13_Witness ==
    /\ child.tool = "build.sh"
    /\ pc = "bub_wait"
    /\ snap.env["CC"] = "preset"
    /\ "/usr/lib/libFuzzingEngine.a" \notin DOMAIN snap.fs

\* C14: whenever gtirb-pprinter has been started the wrapper exists with the
\* text of create_assembler and execute permission for all, written and then
\* chmod-ed by this run after ddisasm exited 0; in a run where ddisasm exited
\* non-zero the wrapper was neither written nor chmod-ed.
C14_WrapperBetweenTools ==
    /\ Invoked("gtirb-pprinter") =>
          /\ WrapperExecutableByAll
          /\ fs["/src/fuzzers/aflplusplus_ddisasm/assemble.sh"].content = create_assembler
          /\ \E k \in 1..Len(ops) - 1 :
                ops[k] = "write_assembler" /\ ops[k + 1] = "chmod_assembler"
    /\ (\E k \in 1..Len(ops) : ops[k] \in {"write_assembler", "chmod_assembler"}) =>
          ExitedZero("ddisasm")
    /\ ExitedNonZero("ddisasm") =>
          /\ \A k \in 1..Len(ops) : ops[k] \notin {"write_assembler", "chmod_assembler"}
          /\ Untouched("/src/fuzzers/aflplusplus_ddisasm/assemble.sh")

C14_Witness ==
    /\ child.tool = "gtirb-pprinter"
    /\ "/src/fuzzers/aflplusplus_ddisasm/assemble.sh" \notin DOMAIN snap.fs
    /\ WrapperExecutableByAll

\* C15: in any single run each of the build script, ddisasm, gtirb-pprinter
\* and afl-fuzz is started at most once, whatever the exit statuses are.
C15_NoRetry ==
    \A tool \in {"build.sh", "ddisasm", "gtirb-pprinter", "afl-fuzz"} :
        Cardinality({i \in 1..Len(calls) : calls[i].tool = tool})
            + (IF child.tool = tool THEN 1 ELSE 0) <= 1

C15_Witness ==
    /\ frame.entry = "build"
    /\ pc = "idle"
    /\ Len(calls) = 3
    /\ calls[3].tool = "gtirb-pprinter"
    /\ calls[3].rc # 0

\* The children started by the current run, the running one included.
Children == (IF child.tool = "none" THEN {} ELSE {child}) \cup
            {calls[i] : i \in 1..Len(calls)}

HasBuildConfig(e) ==
    /\ e["CC"] = "clang"
    /\ e["CXX"] = "clang++"
    /\ e["CFLAGS"] = "-cflag1 -cflag2"
    /\ e["CXXFLAGS"] = "-libcxxflag -cflag1 -cflag2"
    /\ e["FUZZER_LIB"] = "/libStandaloneFuzzTarget.a"

\* build_uninstrumented_benchmark has set the build configuration in this
\* run, or the previous run was a build (which sets it in its first step).
BuildConfigWasSet ==
    \/ frame.entry = "build" /\ pc # "bub_setenv"
    \/ prev.frame.entry = "build"

\* C16 as stated: the children of the later stages (ddisasm, gtirb-pprinter,
\* afl-fuzz) do not inherit the values build_uninstrumented_benchmark set.
C16_Original ==
    BuildConfigWasSet =>
        \A c \in Children :
            c.tool \in {"ddisasm", "gtirb-pprinter", "afl-fuzz"} =>
                /\ c.env["CC"] # "clang"
                /\ c.env["CXX"] # "clang++"
                /\ c.env["CFLAGS"] # "-cflag1 -cflag2"
                /\ c.env["CXXFLAGS"] # "-libcxxflag -cflag1 -cflag2"
                /\ c.env["FUZZER_LIB"] # "/libStandaloneFuzzTarget.a"

\* C16 (amended): the build configuration is assigned to os.environ at each
\* build invocation, whatever the keys held before, and the build script gets
\* a copy of os.environ; it is not discarded: the five values stay in the
\* process environment and every later child (ddisasm, gtirb-pprinter, and
\* afl-fuzz when fuzz runs in the same process) inherits them.
C16_BuildConfigPersists ==
    BuildConfigWasSet =>
        /\ HasBuildConfig(env)
        /\ \A c \in Children : HasBuildConfig(c.env)

C16_Witness ==
    /\ child.tool = "afl-fuzz"
    /\ prev.frame.entry = "build"
    /\ HasBuildConfig(child.env)

BuildRunning == frame.entry = "build" /\ pc # "idle"

\* How a finished run of build may have ended: all three children exited 0
\* and the driver was copied; or the last child started exited non-zero, all
\* before it exited 0, and the run raised with that status; or a file
\* operation of the run itself failed.
BuildEndedProperly ==
    \/ /\ outcome = [kind |-> "return"]
       /\ Len(calls) = 3
       /\ \A i \in 1..3 : calls[i].rc = 0
       /\ ops # <<>> /\ ops[Len(ops)] = "copy_afl_fuzz"
    \/ /\ outcome.kind = "CalledProcessError"
       /\ calls # <<>>
       /\ calls[Len(calls)].rc # 0
       /\ outcome.returncode = calls[Len(calls)].rc
       /\ \A i \in 1..Len(calls) - 1 : calls[i].rc = 0
    \/ /\ outcome.kind = "OSError"
       /\ \A i \in 1..Len(calls) : calls[i].rc = 0

\* C18: given that every child that is started exits, every run of build
\* ends; it ends in success (all three tools exited 0 and the driver was
\* copied) or in failure at the first step that failed; while it runs it
\* always has a next step, and it waits exactly when a child is running.
C18_BuildTerminates ==
    /\ [](BuildRunning => ENABLED BuildStep)
    /\ [](BuildRunning =>
            (pc \in {"bub_wait", "ib_ddisasm_wait", "ib_pprinter_wait"}
                <=> child # [tool |-> "none"]))
    /\ []((frame.entry = "build" /\ pc = "idle") => BuildEndedProperly)
    /\ (BuildRunning ~> (pc = "idle"))

C18_Witness ==
    /\ frame.entry = "build"
    /\ pc = "idle"
    /\ runs = 2
    /\ outcome.kind = "CalledProcessError"
    /\ Len(calls) = 2
    /\ prev.outcome = [kind |-> "return"]

====
